---- MODULE Spec2Model ----
(***************************************************************************)
(* Model of src/src/deep-research.ts: the recursive, concurrency-limited   *)
(* exploration deepResearch().  A call of deepResearch is identified by    *)
(* its path in the exploration tree: <<>> is the top-level call, and the   *)
(* branch running the i-th SERP query of call c is Append(c, i); the call  *)
(* that branch makes recursively has the branch's own path.                *)
(* One action is one continuation of the single-threaded event loop: the   *)
(* code that runs between the completion of one backend call and the next  *)
(* suspension, all promise reactions it triggers included.                 *)
(***************************************************************************)
EXTENDS Integers, Sequences, FiniteSets, TLC

\* ---- bounds of the model
MaxBreadth == 3
MaxDepth == 3
MaxFaults == 1
\* largest number of branches a request may fan out to, over all levels
MaxTree == 9
\* the answers a backend can give to one query: answer a yields the source
\* UrlOf(a) from the search and the learning FactOf(a) from the distiller
Answers == {1, 2}

\* ---- program constant
ConcurrencyLimit == 2

VARIABLES calls, branches, lastSnap, faults, backend, pca, plan

vars == <<calls, branches, lastSnap, faults, backend, pca, plan>>

\* performCompetitorAnalysis and a lone generateSerpQueries are not running
NoPca == [phase |-> "off"]

NoPlan == [pc |-> "off"]

UrlOf(a) == IF a = 1 THEN "u1" ELSE "u2"

FactOf(a) == IF a = 1 THEN "l1" ELSE "l2"

\* the answer that names the query it was asked: a backend whose sources and
\* learnings differ from one query of the tree to the next
IsEcho(a) == a = 0

\* compact(result.data.map(item => item.url)) of the search of branch b
NewUrlsOf(bk, b) ==
  IF IsEcho(bk[b[Len(b)]]) THEN << <<"u">> \o b >> ELSE <<UrlOf(bk[b[Len(b)]])>>

\* newLearnings.learnings of the distillation of branch b
NewLearningsOf(bk, b) ==
  IF IsEcho(bk[b[Len(b)]]) THEN << <<"l">> \o b >> ELSE <<FactOf(bk[b[Len(b)]])>>

EmptyResult == [learnings |-> <<>>, visitedUrls |-> <<>>]

Front(p) == SubSeq(p, 1, Len(p) - 1)

\* a queue that hands out the branch that waited least
MinOfNewest(S) == CHOOSE x \in S : \A y \in S : y <= x

\* the head of p-limit's queue: the waiting branch enqueued first
MinOf(S) == CHOOSE x \in S : \A y \in S : x <= y

\* ---- pure helpers of deepResearch

\* Math.floor instead of Math.ceil
NewBreadthFloor(breadth) == breadth \div 2

\* Math.ceil(breadth / 2) on integers
NewBreadth(breadth) == (breadth + 1) \div 2

NewDepth(depth) == depth - 1

\* the test made on depth instead of newDepth: depth >= 0
RecursesOnDepth(newDepth) == newDepth >= -1

\* newDepth >= 0 instead of newDepth > 0
RecursesAtZero(newDepth) == newDepth >= 0

\* if (newDepth > 0) recurse, else terminal
Recurses(newDepth) == newDepth > 0

\* the slice forgotten: every query the backend produced is returned
SliceQueriesAll(k, numQueries) == k

\* res.object.queries.slice(0, numQueries).length for k produced queries
SliceQueries(k, numQueries) == IF k < numQueries THEN k ELSE numQueries

\* the increment applied twice
NextCompletedTwice(completed) == completed + 2

\* an increment lost to a stale read of the counter
NextCompletedLost(completed) == IF completed > 0 THEN completed ELSE 1

\* progress.completedQueries + 1
NextCompleted(completed) == completed + 1

\* the flattened list returned as it is
DedupeNone(xs) == xs

RECURSIVE Dedupe(_)
\* [...new Set(xs)]: first occurrences, in insertion order (the argument and
\* the deduplicated prefix are each evaluated once, as values bound in a set)
Dedupe(xs) ==
  LET Add(init, last) ==
        IF \E i \in 1..Len(init) : init[i] = last THEN init
        ELSE Append(init, last)
      Go(s) ==
        IF s = <<>> THEN <<>>
        ELSE CHOOSE ys \in {Add(init, s[Len(s)]) : init \in {Dedupe(Front(s))}} : TRUE
  IN CHOOSE ys \in {Go(s) : s \in {xs}} : TRUE

RECURSIVE FlatMap(_, _, _, _)
\* results.flatMap(r => r[field]) over the branches 1..n of call c
FlatMap(br, c, n, field) ==
  IF n = 0 THEN <<>>
  ELSE FlatMap(br, c, n - 1, field) \o br[Append(c, n)].result[field]

\* the value of the return statement of deepResearch
MergeResults(br, c, n) ==
  [learnings |-> Dedupe(FlatMap(br, c, n, "learnings")),
   visitedUrls |-> Dedupe(FlatMap(br, c, n, "visitedUrls"))]

\* only the new strings, the spread of the accumulated ones forgotten
AccumulateNewOnly(acc, new) == new

\* [...learnings, ...newLearnings.learnings] and [...visitedUrls, ...newUrls]
Accumulate(acc, new) == acc \o new

\* Promise.race in place of Promise.all: the first settled branch completes the call
JoinReadyOnFirst(br, c, n) ==
  \E i \in 1..n : br[Append(c, i)].status \in {"done", "caught"}

\* Promise.all(...) resolves: every branch promise has resolved
JoinReady(br, c, n) ==
  \A i \in 1..n : br[Append(c, i)].status \in {"done", "caught"}

\* the catch block returning what the call was given instead of nothing
CaughtResultKeepsInput(call) ==
  [learnings |-> call.learnings, visitedUrls |-> call.visitedUrls]

\* the value the catch block of a branch returns
CaughtResult(call) == EmptyResult

\* ---- records

NewCall(breadth, depth, learnings, visitedUrls) ==
  [status |-> "planning", breadth |-> breadth, depth |-> depth,
   learnings |-> learnings, visitedUrls |-> visitedUrls,
   nQueries |-> 0,
   progress |-> [currentDepth |-> depth, totalDepth |-> depth,
                 currentBreadth |-> breadth, totalBreadth |-> breadth,
                 currentQuery |-> 0,
                 totalQueries |-> 0, completedQueries |-> 0],
   result |-> EmptyResult]

NewBranch(status) == [status |-> status, newUrls |-> <<>>, result |-> EmptyResult]

\* onProgress?.(progress): what the observer reads when it is called
Snapshot(progress) == [delivered |-> TRUE] @@ progress

\* the observer has not been called yet
NoSnap == [delivered |-> FALSE] @@ NewCall(0, 0, <<>>, <<>>).progress

RECURSIVE TreeSize(_, _)
\* branches of a request whose planner always returns breadth queries
TreeSize(breadth, depth) ==
  IF Recurses(NewDepth(depth))
  THEN breadth + breadth * TreeSize(NewBreadth(breadth), NewDepth(depth))
  ELSE breadth

\* ---- promise reactions: p-limit's next(), Promise.all, return of the call

\* a limiter whose slot is never handed on
ReleaseNever(br, c, n) == br

\* p-limit's next() after a branch of call c settled: the head of the queue
\* of that call, if any, takes the free slot
Release(br, c, n) ==
  LET queued == {i \in 1..n : br[Append(c, i)].status = "queued"}
  IN IF queued = {} THEN br
     ELSE [br EXCEPT ![Append(c, MinOf(queued))].status = "searching"]

RECURSIVE Settle(_, _, _, _)
RECURSIVE Finish(_, _, _, _)

\* the promise of branch b settles with the given outcome and value (st and
\* r are evaluated once, as values bound in a set)
Settle(st, b, outcome, r) ==
  LET c == Front(b)
      Go(s, v) ==
        LET n == s.calls[c].nQueries
            br1 == [s.branches EXCEPT ![b].status = outcome, ![b].result = v]
            br2 == Release(br1, c, n)
            st2 == [s EXCEPT !.branches = br2]
        IN IF s.calls[c].status # "fanout" THEN st2
           ELSE IF outcome = "rejected" THEN Finish(st2, c, "failed", EmptyResult)
           ELSE IF JoinReady(br2, c, n)
                THEN Finish(st2, c, "returned", MergeResults(br2, c, n))
           ELSE st2
  IN CHOOSE x \in {Go(s, v) : s \in {st}, v \in {r}} : TRUE

\* the promise of call c settles: it returns r, or it is rejected
Finish(st, c, status, r) ==
  LET Go(s, v) ==
        LET st1 == [s EXCEPT !.calls[c].status = status, !.calls[c].result = v]
        IN IF c = <<>> THEN st1
           ELSE Settle(st1, c, IF status = "returned" THEN "done" ELSE "rejected", v)
  IN CHOOSE x \in {Go(s, v) : s \in {st}, v \in {r}} : TRUE

State == [calls |-> calls, branches |-> branches]

\* ---- actions

Init ==
  /\ \E breadth \in 1..MaxBreadth, depth \in 0..MaxDepth :
       /\ TreeSize(breadth, depth) <= MaxTree
       /\ calls = (<<>> :> NewCall(breadth, depth, <<>>, <<>>))
  /\ backend \in [1..MaxBreadth -> Answers]
  /\ branches = << >>
  /\ lastSnap = NoSnap
  /\ faults = 0
  /\ pca = NoPca
  /\ plan = NoPlan

\* generateSerpQueries resolves with k queries from the backend
PlanOk(c, k) ==
  /\ calls[c].status = "planning"
  /\ LET n == SliceQueries(k, calls[c].breadth)
         progress == [calls[c].progress EXCEPT !.totalQueries = n,
                         !.currentQuery = IF n > 0 THEN 1 ELSE 0]
         cs == [calls EXCEPT ![c].status = "fanout", ![c].nQueries = n,
                             ![c].progress = progress]
         bs == [b \in DOMAIN branches \cup {Append(c, i) : i \in 1..n} |->
                  IF b \in DOMAIN branches THEN branches[b]
                  ELSE NewBranch(IF b[Len(b)] <= ConcurrencyLimit
                                 THEN "searching" ELSE "queued")]
         st == [calls |-> cs, branches |-> bs]
         fin == IF n = 0 THEN Finish(st, c, "returned", MergeResults(bs, c, 0))
                ELSE st
     IN /\ calls' = fin.calls
        /\ branches' = fin.branches
        /\ lastSnap' = Snapshot(progress)
  /\ UNCHANGED <<faults, backend, pca, plan>>

\* generateSerpQueries rejects: the call rejects, nothing catches it
PlanFail(c) ==
  /\ calls[c].status = "planning"
  /\ faults < MaxFaults
  /\ faults' = faults + 1
  /\ LET fin == Finish(State, c, "planFailed", EmptyResult)
     IN /\ calls' = fin.calls
        /\ branches' = fin.branches
  /\ UNCHANGED <<lastSnap, backend, pca, plan>>

\* firecrawl.search resolves
SearchOk(b) ==
  /\ branches[b].status = "searching"
  /\ branches' = [branches EXCEPT ![b].status = "distilling",
                                   ![b].newUrls = NewUrlsOf(backend, b)]
  /\ UNCHANGED <<calls, lastSnap, faults, backend, pca, plan>>

\* firecrawl.search rejects: caught in the branch
SearchFail(b) ==
  /\ branches[b].status = "searching"
  /\ faults < MaxFaults
  /\ faults' = faults + 1
  /\ LET fin == Settle(State, b, "caught", CaughtResult(calls[Front(b)]))
     IN /\ calls' = fin.calls
        /\ branches' = fin.branches
  /\ UNCHANGED <<lastSnap, backend, pca, plan>>

\* processSerpResult rejects: caught in the branch
DistillFail(b) ==
  /\ branches[b].status = "distilling"
  /\ faults < MaxFaults
  /\ faults' = faults + 1
  /\ LET fin == Settle(State, b, "caught", CaughtResult(calls[Front(b)]))
     IN /\ calls' = fin.calls
        /\ branches' = fin.branches
  /\ UNCHANGED <<lastSnap, backend, pca, plan>>

\* processSerpResult resolves with newLearnings
DistillOk(b) ==
  /\ branches[b].status = "distilling"
  /\ LET c == Front(b)
         newLearnings == NewLearningsOf(backend, b)
         call == calls[c]
         newBreadth == NewBreadth(call.breadth)
         newDepth == NewDepth(call.depth)
         allLearnings == Accumulate(call.learnings, newLearnings)
         allUrls == Accumulate(call.visitedUrls, branches[b].newUrls)
     IN IF Recurses(newDepth)
        THEN LET progress == [call.progress EXCEPT
                                !.currentDepth = newDepth,
                                !.currentBreadth = newBreadth,
                                !.completedQueries = NextCompleted(call.progress.completedQueries),
                                !.currentQuery = b[Len(b)]]
             IN \* the nesting of calls is capped at MaxDepth levels
                /\ Len(b) <= MaxDepth
                /\ calls' = [p \in DOMAIN calls \cup {b} |->
                              IF p = b THEN NewCall(newBreadth, newDepth, allLearnings, allUrls)
                              ELSE IF p = c THEN [call EXCEPT !.progress = progress]
                              ELSE calls[p]]
                /\ branches' = [branches EXCEPT ![b].status = "recursing"]
                /\ lastSnap' = Snapshot(progress)
        ELSE LET progress == [call.progress EXCEPT
                                !.currentDepth = 0,
                                !.completedQueries = NextCompleted(call.progress.completedQueries),
                                !.currentQuery = b[Len(b)]]
                 st == [calls |-> [calls EXCEPT ![c].progress = progress],
                        branches |-> branches]
                 fin == Settle(st, b, "done",
                               [learnings |-> allLearnings, visitedUrls |-> allUrls])
             IN /\ calls' = fin.calls
                /\ branches' = fin.branches
                /\ lastSnap' = Snapshot(progress)
  /\ UNCHANGED <<faults, backend, pca, plan>>

Next ==
  \/ \E c \in DOMAIN calls : \E k \in 0..(MaxBreadth + 1) : PlanOk(c, k)
  \/ \E c \in DOMAIN calls : PlanFail(c)
  \/ \E b \in DOMAIN branches : SearchOk(b)
  \/ \E b \in DOMAIN branches : SearchFail(b)
  \/ \E b \in DOMAIN branches : DistillOk(b)
  \/ \E b \in DOMAIN branches : DistillFail(b)

Spec == Init /\ [][Next]_vars

\* ---- derived notions used by the properties

Range(xs) == {xs[i] : i \in 1..Len(xs)}

NoDuplicates(xs) == \A i, j \in 1..Len(xs) : xs[i] = xs[j] => i = j

BranchesOf(c) == {Append(c, i) : i \in 1..calls[c].nQueries}

Top == calls[<<>>]

\* branches that completed search and distillation (terminal or recursive case)
Executed == {b \in DOMAIN branches : branches[b].status \in {"recursing", "done", "rejected"}}

InFlightSearches == {b \in DOMAIN branches : branches[b].status = "searching"}

Running(c) == {b \in BranchesOf(c) : branches[b].status \in {"searching", "distilling", "recursing"}}

MaxOf(S) == CHOOSE x \in S : \A y \in S : y <= x

\* nested deepResearch invocations below the top-level call on the longest path
LevelsReached == MaxOf({Len(c) : c \in DOMAIN calls})

CeilDiv(a, b) == (a + b - 1) \div b

RECURSIVE LevelsUntilUnderflow(_, _)
\* halvings (rounded up) before breadth falls below 1, counted up to cap
LevelsUntilUnderflow(breadth, cap) ==
  IF breadth < 1 \/ cap = 0 THEN 0
  ELSE 1 + LevelsUntilUnderflow(CeilDiv(breadth, 2), cap - 1)

\* no backend call failed and every planner call returned at least one query
AllSucceeded ==
  /\ faults = 0
  /\ \A c \in DOMAIN calls : calls[c].status # "planning" => calls[c].nQueries >= 1

\* ---- properties

\* C1: the top-level call is rejected only by the failure of its own planning
\* call, never by a failure inside a branch at any level.
C1_TopFailsOnlyOnOwnPlanning == Top.status # "failed"

\* C2: a branch whose search or distillation threw returns the empty result;
\* its failure does not block the queue of its call (a branch waits only while
\* ConcurrencyLimit siblings run); and a call returns only when all its
\* branches have settled, with every sibling's learnings and sources in its result.
C2_FailedBranchIsolated ==
  \A c \in DOMAIN calls :
    /\ \A b \in BranchesOf(c) :
         branches[b].status = "caught" => branches[b].result = EmptyResult
    /\ (\E b \in BranchesOf(c) : branches[b].status = "queued")
         => Cardinality(Running(c)) = ConcurrencyLimit
    /\ calls[c].status = "returned" =>
         \A b \in BranchesOf(c) :
           /\ branches[b].status \in {"done", "caught"}
           /\ Range(branches[b].result.learnings) \subseteq Range(calls[c].result.learnings)
           /\ Range(branches[b].result.visitedUrls) \subseteq Range(calls[c].result.visitedUrls)

C2_Witness ==
  \E c \in DOMAIN calls :
    /\ calls[c].status = "returned"
    /\ calls[c].learnings # <<>>
    /\ \E b1, b2 \in BranchesOf(c) :
         /\ branches[b1].status = "caught"
         /\ branches[b2].status = "done"
         /\ branches[b2].result.learnings # <<>>

\* C3: over the whole exploration tree, at most ConcurrencyLimit search calls
\* are in flight at any moment.
C3_GlobalInFlightAtMostK == Cardinality(InFlightSearches) <= ConcurrencyLimit

\* C4: completedQueries never decreases from one snapshot delivered to the
\* observer to the next, child calls' notifications included.
C4_CompletedMonotonic ==
  [][(lastSnap.delivered /\ lastSnap'.delivered)
       => lastSnap'.completedQueries >= lastSnap.completedQueries]_vars

\* C5: every snapshot delivered to the observer has completedQueries <= totalQueries.
C5_CompletedAtMostTotal ==
  lastSnap.delivered => lastSnap.completedQueries <= lastSnap.totalQueries

C5_Witness ==
  /\ lastSnap.delivered
  /\ faults > 0
  /\ lastSnap.totalQueries >= 2
  /\ lastSnap.completedQueries = lastSnap.totalQueries

\* C6: when the top-level call has returned, completedQueries of the last
\* snapshot equals the number of branches executed in the whole tree.
C6_FinalCompletedCountsAllBranches ==
  Top.status = "returned" => lastSnap.completedQueries = Cardinality(Executed)

\* C7: a top-level call with depth 0 plans once, runs one branch per planned
\* query, never recurses, and returns the learnings and sources of that round.
C7_DepthZeroSingleRound ==
  Top.depth = 0 =>
    /\ DOMAIN calls = {<<>>}
    /\ DOMAIN branches = BranchesOf(<<>>)
    /\ \A b \in DOMAIN branches : branches[b].status # "recursing"
    /\ Top.status = "returned" =>
         LET ok == {b \in DOMAIN branches : branches[b].status = "done"}
         IN /\ Range(Top.result.learnings) = {FactOf(backend[b[1]]) : b \in ok}
            /\ Range(Top.result.visitedUrls) = {UrlOf(backend[b[1]]) : b \in ok}

C7_Witness ==
  /\ Top.depth = 0
  /\ Top.status = "returned"
  /\ Top.nQueries >= 2
  /\ Len(Top.result.learnings) >= 2

\* C8: the call at recursion level i has breadth ceil(initialBreadth / 2^i)
\* and depth initialDepth - i.
C8_BreadthDepthByLevel ==
  \A c \in DOMAIN calls :
    /\ calls[c].breadth = CeilDiv(Top.breadth, 2 ^ Len(c))
    /\ calls[c].depth = Top.depth - Len(c)

C8_Witness ==
  /\ Top.breadth = 2
  /\ \E c \in DOMAIN calls : Len(c) = 2 /\ calls[c].status = "returned"

\* C9 as stated: with every call succeeding and every planner call returning
\* a query, the levels reached equal min(depth, levels until breadth underflows).
C9_LevelsEqualMinDepthUnderflow ==
  (AllSucceeded /\ Top.status = "returned") =>
    LET u == LevelsUntilUnderflow(Top.breadth, Top.depth + 1)
    IN LevelsReached = IF Top.depth < u THEN Top.depth ELSE u

\* C9 amended: with every call succeeding and every planner call returning a
\* query, the levels reached equal max(depth - 1, 0).
C9_LevelsReached ==
  (AllSucceeded /\ Top.status = "returned") =>
    LevelsReached = IF Top.depth >= 1 THEN Top.depth - 1 ELSE 0

C9_Witness ==
  /\ AllSucceeded
  /\ Top.status = "returned"
  /\ Top.depth = 3
  /\ LevelsReached = 2

\* C10: the result of every call that returned has no duplicate learning and
\* no duplicate source, and holds exactly the strings its branches returned.
C10_ResultIsDedupedUnion ==
  \A c \in DOMAIN calls :
    calls[c].status = "returned" =>
      /\ NoDuplicates(calls[c].result.learnings)
      /\ NoDuplicates(calls[c].result.visitedUrls)
      /\ Range(calls[c].result.learnings)
           = UNION {Range(branches[b].result.learnings) : b \in BranchesOf(c)}
      /\ Range(calls[c].result.visitedUrls)
           = UNION {Range(branches[b].result.visitedUrls) : b \in BranchesOf(c)}

C10_Witness ==
  \E c \in DOMAIN calls :
    /\ calls[c].status = "returned"
    /\ \E b1, b2 \in BranchesOf(c) :
         /\ b1 # b2
         /\ Range(branches[b1].result.learnings) \cap Range(branches[b2].result.learnings) # {}
         /\ Range(branches[b1].result.learnings) # Range(branches[b2].result.learnings)

\* the strings branch b passes on: those of its ancestors and its own
PathLearnings(b) == {NewLearningsOf(backend, SubSeq(b, 1, i))[1] : i \in 1..Len(b)}

PathUrls(b) == {NewUrlsOf(backend, SubSeq(b, 1, i))[1] : i \in 1..Len(b)}

RECURSIVE ExpectedLearnings(_)
\* what call c returns as a function of what the backends did (the queries
\* planned, the calls that failed, the answers), read off the tree without
\* regard to the order in which the branches ran
ExpectedLearnings(c) ==
  UNION {IF branches[b].status = "caught" THEN {}
         ELSE IF b \in DOMAIN calls THEN ExpectedLearnings(b)
         ELSE PathLearnings(b) : b \in BranchesOf(c)}

RECURSIVE ExpectedUrls(_)
ExpectedUrls(c) ==
  UNION {IF branches[b].status = "caught" THEN {}
         ELSE IF b \in DOMAIN calls THEN ExpectedUrls(b)
         ELSE PathUrls(b) : b \in BranchesOf(c)}

\* C11: with deterministic backends the membership of the returned learnings
\* and sources is a function of the request and of the backends' behaviour
\* alone, so two runs that differ only in interleaving return the same sets.
C11_ResultIndependentOfInterleaving ==
  Top.status = "returned" =>
    /\ Range(Top.result.learnings) = ExpectedLearnings(<<>>)
    /\ Range(Top.result.visitedUrls) = ExpectedUrls(<<>>)

C11_Witness ==
  /\ Top.status = "returned"
  /\ Top.depth >= 2
  /\ Top.nQueries >= 2
  /\ faults > 0
  /\ \E b \in BranchesOf(<<>>) : b \in DOMAIN calls /\ calls[b].nQueries >= 2
  /\ Cardinality(Range(Top.result.learnings)) >= 2

\* ---- the scenario explore({topic: "X", breadth: 4, depth: 2}) with stubs:
\* the planner offers exactly 4 queries, the distiller returns one learning
\* per branch (the same one everywhere, or one that names its query), and no
\* call fails

InitScenario ==
  /\ calls = (<<>> :> NewCall(4, 2, <<>>, <<>>))
  /\ backend \in {[i \in 1..4 |-> a] : a \in {0, 1}}
  /\ branches = << >>
  /\ lastSnap = NoSnap
  /\ faults = 0
  /\ pca = NoPca
  /\ plan = NoPlan

NextScenario ==
  \/ \E c \in DOMAIN calls : PlanOk(c, 4)
  \/ \E b \in DOMAIN branches : SearchOk(b)
  \/ \E b \in DOMAIN branches : DistillOk(b)

SpecScenario == InitScenario /\ [][NextScenario]_vars

\* C12 as stated: a recursion level is reached, every child call has breadth
\* 2, and the final learnings have no duplicates and number between 1 and
\* 4 x (levels traversed), the levels counted with the top-level round.
C12_ScenarioAsStated ==
  /\ \A c \in DOMAIN calls : c # <<>> => calls[c].breadth = 2
  /\ Top.status = "returned" =>
       /\ LevelsReached >= 1
       /\ NoDuplicates(Top.result.learnings)
       /\ Len(Top.result.learnings) >= 1
       /\ Len(Top.result.learnings) <= 4 * (LevelsReached + 1)

\* C12 amended: a recursion level is reached, every child call has breadth 2,
\* and the final learnings have no duplicates and number between 1 and 12,
\* one per branch executed (4 + 4 x 2).
C12_Scenario ==
  /\ \A c \in DOMAIN calls : c # <<>> => calls[c].breadth = 2
  /\ Top.status = "returned" =>
       /\ LevelsReached >= 1
       /\ NoDuplicates(Top.result.learnings)
       /\ Len(Top.result.learnings) >= 1
       /\ Len(Top.result.learnings) <= 4 + 4 * 2
       /\ Len(Top.result.learnings) <= Cardinality(Executed)

C12_Witness ==
  /\ Top.status = "returned"
  /\ Top.breadth = 4
  /\ Cardinality(DOMAIN calls) = 5
  /\ Len(Top.result.learnings) = 12

\* ---- performCompetitorAnalysis: discovery of the drugs, then the research
\* of each drug.  pca holds the locals of the invocation: the discovery
\* queries dq with the items of their search results, allDrugs (a Set, kept in
\* insertion order), completedQueries, the research of each drug in res,
\* drugDetails, completedDrugs and the status last given to onProgress.

\* bounds of this part
MaxDiscovery == 3
MaxItems == 1
\* items with markdown in one search result of researchDrug
MaxMarkdown == 1
DrugItems == {"A", "B", "none"}

\* the three targeted queries of researchDrug
NumResearchQueries == 3

RECURSIVE SeqsUpTo(_, _)
SeqsUpTo(S, n) ==
  IF n = 0 THEN {<<>>}
  ELSE LET shorter == SeqsUpTo(S, n - 1)
       IN shorter \cup {Append(xs, x) : xs \in {ys \in shorter : Len(ys) = n - 1}, x \in S}

\* an item of a search result: "none" has no markdown and is not extracted
NewItem(d) == [drug |-> d, st |-> IF d = "none" THEN "skipped" ELSE "pending"]

ItemsSettled(items) == \A i \in 1..Len(items) : items[i].st # "pending"

RECURSIVE DrugLists(_)
\* drugLists.flat(): a failed or skipped extraction contributes []
DrugLists(items) ==
  IF items = <<>> THEN <<>>
  ELSE DrugLists(Front(items))
         \o (IF items[Len(items)].st = "ok" THEN <<items[Len(items)].drug>> ELSE <<>>)

\* forEach(drug => allDrugs.add(drug))
AddAll(allDrugs, xs) == Dedupe(allDrugs \o xs)

\* the limiter starts the branches in submission order, ConcurrencyLimit at once
LimitStart(n) == [j \in 1..n |-> IF j <= ConcurrencyLimit THEN "searching" ELSE "queued"]

\* p-limit's next(): the first queued operation begins
LimitNext(sts) ==
  LET queued == {j \in 1..Len(sts) : sts[j] = "queued"}
  IN IF queued = {} THEN sts ELSE [sts EXCEPT ![MinOf(queued)] = "searching"]

Settled(sts) == \A j \in 1..Len(sts) : sts[j] \in {"done", "caught"}

\* discovery returning as soon as one query has settled
DiscoveryDoneOnFirst(dq) ==
  \E q \in 1..Len(dq) : dq[q].status \in {"done", "caught"}

\* await Promise.all(...) of discoverDrugsForIndication resolves
DiscoveryDone(dq) == Settled([q \in 1..Len(dq) |-> dq[q].status])

IdleResearch == [stage |-> "idle", rq |-> <<>>, searchResults |-> <<>>, frags |-> <<>>]

DoneResearch == [IdleResearch EXCEPT !.stage = "done"]

\* researchDrug up to its first await
StartedResearch ==
  [stage |-> "searching", rq |-> LimitStart(NumResearchQueries),
   searchResults |-> <<>>, frags |-> <<>>]

\* every drug not yet researched started at once
ToStartAll(k, n) == k..n

\* the body of the for loop runs for drug k only
ToStart(k, n) == {k}

\* one turn of for (const drug of drugs), or the code after the loop
Iterate(p, k) ==
  IF k > Len(p.allDrugs) THEN [p EXCEPT !.phase = "writing"]
  ELSE [p EXCEPT !.phase = "researching",
                 !.lastStatus = "researching_drugs",
                 !.res = [j \in 1..Len(p.allDrugs) |->
                            IF j \in ToStart(k, Len(p.allDrugs)) /\ p.res[j].stage = "idle"
                            THEN StartedResearch ELSE p.res[j]]]

\* discoverDrugsForIndication returns Array.from(allDrugs)
BeginLoop(p) ==
  Iterate([p EXCEPT !.res = [j \in 1..Len(p.allDrugs) |-> IdleResearch]], 1)

\* a discovery branch ends (done, or caught): completedQueries++, next();
\* its search result is dropped with it
QuerySettled(p, q, outcome) ==
  LET p1 == [p EXCEPT !.dq[q].status = outcome,
                      !.dq[q].items = <<>>,
                      !.allDrugs = IF outcome = "done"
                                   THEN AddAll(@, DrugLists(p.dq[q].items)) ELSE @,
                      !.completedQueries = @ + 1]
      sts == LimitNext([j \in 1..Len(p1.dq) |-> p1.dq[j].status])
      \* a branch that begins calls onProgress with status discovering_drugs
      p2 == [p1 EXCEPT !.dq = [j \in 1..Len(p1.dq) |-> [p1.dq[j] EXCEPT !.status = sts[j]]],
                       !.lastStatus = IF \E j \in 1..Len(p1.dq) : sts[j] # p1.dq[j].status
                                      THEN "discovering_drugs" ELSE @]
  IN IF p.phase = "discovering" /\ DiscoveryDone(p2.dq) THEN BeginLoop(p2) ELSE p2

\* the state when performCompetitorAnalysis awaits the discovery planning
InitPca ==
  [phase |-> "planning", lastStatus |-> "discovering_drugs",
   dq |-> <<>>, allDrugs |-> <<>>, completedQueries |-> 0,
   res |-> <<>>, drugDetails |-> <<>>, completedDrugs |-> 0]

InitEntity ==
  /\ pca = InitPca
  /\ faults = 0
  /\ calls = << >>
  /\ branches = << >>
  /\ lastSnap = NoSnap
  /\ backend = << >>
  /\ plan = NoPlan

\* generateObject of discoverDrugsForIndication resolves with n queries
DiscoverPlanOk(n) ==
  /\ pca.phase = "planning"
  /\ LET sts == LimitStart(n)
         p == [pca EXCEPT !.phase = "discovering",
                          !.dq = [q \in 1..n |-> [status |-> sts[q], items |-> <<>>]]]
     IN pca' = IF n = 0 THEN BeginLoop(p) ELSE p
  /\ UNCHANGED <<calls, branches, lastSnap, faults, backend, plan>>

\* it rejects: nothing catches it
DiscoverPlanFail ==
  /\ pca.phase = "planning"
  /\ faults < MaxFaults
  /\ faults' = faults + 1
  /\ pca' = [pca EXCEPT !.phase = "failedPlanning"]
  /\ UNCHANGED <<calls, branches, lastSnap, backend, plan>>

\* firecrawl.search of discovery query q resolves with the given items
DiscoverSearchOk(q, ds) ==
  /\ pca.phase \in {"discovering", "researching", "writing"}
  /\ q \in 1..Len(pca.dq)
  /\ pca.dq[q].status = "searching"
  /\ LET items == [i \in 1..Len(ds) |-> NewItem(ds[i])]
         p == [pca EXCEPT !.dq[q].status = "extracting", !.dq[q].items = items]
     IN pca' = IF ItemsSettled(items) THEN QuerySettled(p, q, "done") ELSE p
  /\ UNCHANGED <<calls, branches, lastSnap, faults, backend, plan>>

\* firecrawl.search of discovery query q rejects: caught in the branch
DiscoverSearchFail(q) ==
  /\ pca.phase \in {"discovering", "researching", "writing"}
  /\ q \in 1..Len(pca.dq)
  /\ pca.dq[q].status = "searching"
  /\ faults < MaxFaults
  /\ faults' = faults + 1
  /\ pca' = QuerySettled(pca, q, "caught")
  /\ UNCHANGED <<calls, branches, lastSnap, backend, plan>>

\* the extraction of item i of query q resolves (ok) or rejects and is caught
DiscoverExtract(q, i, ok) ==
  /\ pca.phase \in {"discovering", "researching", "writing"}
  /\ q \in 1..Len(pca.dq)
  /\ pca.dq[q].status = "extracting"
  /\ i \in 1..Len(pca.dq[q].items)
  /\ pca.dq[q].items[i].st = "pending"
  /\ ok \/ faults < MaxFaults
  /\ faults' = IF ok THEN faults ELSE faults + 1
  /\ LET p == [pca EXCEPT !.dq[q].items[i].st = IF ok THEN "ok" ELSE "failed"]
     IN pca' = IF ItemsSettled(p.dq[q].items) THEN QuerySettled(p, q, "done") ELSE p
  /\ UNCHANGED <<calls, branches, lastSnap, backend, plan>>

RECURSIVE Sum(_)
Sum(ns) == IF ns = <<>> THEN 0 ELSE Sum(Front(ns)) + ns[Len(ns)]

\* a query of researchDrug ends: next(); after the last one the extraction of
\* every item with markdown begins, and with none of them the merge call
ResearchSearchSettled(r, j, outcome, m) ==
  LET r1 == [r EXCEPT !.rq = LimitNext([@ EXCEPT ![j] = outcome]),
                      !.searchResults = IF outcome = "done" THEN Append(@, m) ELSE @]
      n == Sum(r1.searchResults)
  IN IF ~Settled(r1.rq) THEN r1
     ELSE [r1 EXCEPT !.frags = [f \in 1..n |-> "pending"],
                     !.stage = IF n = 0 THEN "merging" ELSE "extracting"]

\* an extraction of researchDrug ends; after the last one the merge call is made
FragmentSettled(r, f, outcome) ==
  LET r1 == [r EXCEPT !.frags[f] = outcome]
  IN IF \E g \in 1..Len(r1.frags) : r1.frags[g] = "pending" THEN r1
     ELSE [r1 EXCEPT !.stage = "merging"]

\* firecrawl.search of query j of the research of drug k resolves with m
\* items that have markdown
ResearchSearchOk(k, j, m) ==
  /\ pca.phase = "researching"
  /\ k \in 1..Len(pca.res)
  /\ pca.res[k].stage = "searching"
  /\ pca.res[k].rq[j] = "searching"
  /\ pca' = [pca EXCEPT !.res[k] = ResearchSearchSettled(@, j, "done", m)]
  /\ UNCHANGED <<calls, branches, lastSnap, faults, backend, plan>>

\* it rejects: caught in the branch
ResearchSearchFail(k, j) ==
  /\ pca.phase = "researching"
  /\ k \in 1..Len(pca.res)
  /\ pca.res[k].stage = "searching"
  /\ pca.res[k].rq[j] = "searching"
  /\ faults < MaxFaults
  /\ faults' = faults + 1
  /\ pca' = [pca EXCEPT !.res[k] = ResearchSearchSettled(@, j, "caught", 0)]
  /\ UNCHANGED <<calls, branches, lastSnap, backend, plan>>

\* the extraction of fragment f resolves (ok) or rejects and yields null
ResearchExtract(k, f, ok) ==
  /\ pca.phase = "researching"
  /\ k \in 1..Len(pca.res)
  /\ pca.res[k].stage = "extracting"
  /\ f \in 1..Len(pca.res[k].frags)
  /\ pca.res[k].frags[f] = "pending"
  /\ ok \/ faults < MaxFaults
  /\ faults' = IF ok THEN faults ELSE faults + 1
  /\ pca' = [pca EXCEPT !.res[k] = FragmentSettled(@, f, IF ok THEN "ok" ELSE "failed")]
  /\ UNCHANGED <<calls, branches, lastSnap, backend, plan>>

\* the merge call of researchDrug resolves: drugDetails.push, completedDrugs++
MergeOk(k) ==
  /\ pca.phase = "researching"
  /\ k \in 1..Len(pca.res)
  /\ pca.res[k].stage = "merging"
  /\ LET r == pca.res[k]
         details == [name |-> pca.allDrugs[k],
                     fragments |-> Cardinality({f \in 1..Len(r.frags) : r.frags[f] = "ok"})]
         p == [pca EXCEPT !.res[k] = DoneResearch,
                          !.drugDetails = Append(@, details),
                          !.completedDrugs = @ + 1]
     IN pca' = Iterate(p, k + 1)
  /\ UNCHANGED <<calls, branches, lastSnap, faults, backend, plan>>

\* the merge call rejects: researchDrug and the invocation reject
MergeFail(k) ==
  /\ pca.phase = "researching"
  /\ k \in 1..Len(pca.res)
  /\ pca.res[k].stage = "merging"
  /\ faults < MaxFaults
  /\ faults' = faults + 1
  /\ pca' = [pca EXCEPT !.phase = "failedResearch"]
  /\ UNCHANGED <<calls, branches, lastSnap, backend, plan>>

\* csvWriter.writeRecords resolves: the invocation returns drugDetails
WriteOk ==
  /\ pca.phase = "writing"
  /\ pca' = [pca EXCEPT !.phase = "returned"]
  /\ UNCHANGED <<calls, branches, lastSnap, faults, backend, plan>>

\* csvWriter.writeRecords rejects
WriteFail ==
  /\ pca.phase = "writing"
  /\ faults < MaxFaults
  /\ faults' = faults + 1
  /\ pca' = [pca EXCEPT !.phase = "failedWriting"]
  /\ UNCHANGED <<calls, branches, lastSnap, backend, plan>>

NextEntity ==
  \/ \E n \in 0..MaxDiscovery : DiscoverPlanOk(n)
  \/ DiscoverPlanFail
  \/ \E q \in 1..MaxDiscovery : \E ds \in SeqsUpTo(DrugItems, MaxItems) : DiscoverSearchOk(q, ds)
  \/ \E q \in 1..MaxDiscovery : DiscoverSearchFail(q)
  \/ \E q \in 1..MaxDiscovery : \E i \in 1..MaxItems : \E ok \in BOOLEAN : DiscoverExtract(q, i, ok)
  \/ \E k \in 1..Cardinality(DrugItems) : \E j \in 1..NumResearchQueries :
       \E m \in 0..MaxMarkdown : ResearchSearchOk(k, j, m)
  \/ \E k \in 1..Cardinality(DrugItems) : \E j \in 1..NumResearchQueries : ResearchSearchFail(k, j)
  \/ \E k \in 1..Cardinality(DrugItems) : \E f \in 1..(NumResearchQueries * MaxMarkdown) :
       \E ok \in BOOLEAN : ResearchExtract(k, f, ok)
  \/ \E k \in 1..Cardinality(DrugItems) : MergeOk(k)
  \/ \E k \in 1..Cardinality(DrugItems) : MergeFail(k)
  \/ WriteOk
  \/ WriteFail

SpecEntity == InitEntity /\ [][NextEntity]_vars

\* ---- properties of performCompetitorAnalysis

DetailNames == [i \in 1..Len(pca.drugDetails) |-> pca.drugDetails[i].name]

UnderResearch == {k \in 1..Len(pca.res) : pca.res[k].stage \notin {"idle", "done"}}

ResearchBegun == pca.phase \in {"researching", "writing", "returned", "failedResearch", "failedWriting"}

\* C13: no failure of a backend call made while researching an entity makes
\* the invocation fail, and the list it hands back has a Record for every
\* discovered entity.
C13_EntityNeverDropped ==
  /\ pca.phase # "failedResearch"
  /\ pca.phase \in {"writing", "returned"} => DetailNames = pca.allDrugs

\* C14: once researching_drugs has been reported, discovering_drugs is never
\* reported again; research has begun only if every discovery query has
\* completed; the invocation returns only with every discovered entity researched.
C14_PhasesForward ==
  [][/\ pca.lastStatus = "researching_drugs" => pca'.lastStatus = "researching_drugs"
     /\ ResearchBegun' => (\A q \in 1..Len(pca'.dq) : pca'.dq[q].status \in {"done", "caught"})
     /\ pca'.phase = "returned" =>
          /\ Len(pca'.drugDetails) = Len(pca'.allDrugs)
          /\ \A k \in 1..Len(pca'.res) : pca'.res[k].stage = "done"]_vars

C14_Witness ==
  /\ pca.phase = "returned"
  /\ Len(pca.dq) = 3
  /\ Len(pca.drugDetails) = 2
  /\ faults > 0

\* C19: at most one entity is under research at any moment, the entities
\* before it are finished and those after it not begun, and drugDetails
\* lists the finished ones in discovery order.
C19_OneEntityAtATime ==
  ResearchBegun =>
    /\ Cardinality(UnderResearch) <= 1
    /\ \A k \in UnderResearch :
         /\ \A j \in 1..(k - 1) : pca.res[j].stage = "done"
         /\ \A j \in (k + 1)..Len(pca.res) : pca.res[j].stage = "idle"
    /\ Len(pca.drugDetails) = pca.completedDrugs
    /\ DetailNames = SubSeq(pca.allDrugs, 1, Len(pca.drugDetails))

C19_Witness ==
  /\ pca.phase = "researching"
  /\ UnderResearch = {2}
  /\ pca.res[2].stage = "merging"
  /\ Len(pca.drugDetails) = 1

\* ---- generateSerpQueries on the list of queries itself, and what
\* deepResearch does with the list in the same turn: plan holds the list the
\* backend produced, the list returned, totalQueries and the number of branch
\* operations handed to the limiter

QueryIds == {"q1", "q2", "q3"}

\* res.object.queries.slice(0, numQueries)
Slice(xs, numQueries) == SubSeq(xs, 1, SliceQueries(Len(xs), numQueries))

InitPlanner ==
  /\ \E numQueries \in 1..MaxBreadth :
       plan = [pc |-> "planning", numQueries |-> numQueries, produced |-> <<>>,
               queries |-> <<>>, totalQueries |-> 0, submitted |-> 0]
  /\ pca = NoPca
  /\ faults = 0
  /\ calls = << >>
  /\ branches = << >>
  /\ lastSnap = NoSnap
  /\ backend = << >>

\* the backend answers with the list produced; deepResearch reports
\* totalQueries and submits one branch per query returned
PlanAndSubmit(produced) ==
  /\ plan.pc = "planning"
  /\ LET serpQueries == Slice(produced, plan.numQueries)
     IN plan' = [plan EXCEPT !.pc = "submitted", !.produced = produced,
                             !.queries = serpQueries,
                             !.totalQueries = Len(serpQueries),
                             !.submitted = Len(serpQueries)]
  /\ UNCHANGED <<calls, branches, lastSnap, faults, backend, pca>>

NextPlanner == \E produced \in SeqsUpTo(QueryIds, MaxBreadth + 1) : PlanAndSubmit(produced)

SpecPlanner == InitPlanner /\ [][NextPlanner]_vars

\* C15: the planner returns at most maxQueries queries, a prefix of what the
\* backend produced and all of it when that is not more than maxQueries; so
\* the call submits at most breadth branches and reports totalQueries <= breadth.
C15_PlannerTruncates ==
  plan.pc = "submitted" =>
    /\ Len(plan.queries) <= plan.numQueries
    /\ Len(plan.queries) <= Len(plan.produced)
    /\ plan.queries = SubSeq(plan.produced, 1, Len(plan.queries))
    /\ Len(plan.produced) <= plan.numQueries => plan.queries = plan.produced
    /\ Len(plan.produced) >= plan.numQueries => Len(plan.queries) = plan.numQueries
    /\ plan.submitted = Len(plan.queries)
    /\ plan.submitted <= plan.numQueries
    /\ plan.totalQueries <= plan.numQueries

C15_Witness ==
  /\ plan.pc = "submitted"
  /\ plan.numQueries = 2
  /\ Len(plan.produced) = 3
  /\ plan.queries = SubSeq(plan.produced, 1, 2)
  /\ plan.submitted = 2

\* ---- the limiter of one call: a request wide enough for two branches to
\* wait in the queue of the top-level call, over every outcome of the backend

InitLimiter ==
  /\ \E depth \in 1..2 :
       calls = (<<>> :> NewCall(ConcurrencyLimit + 2, depth, <<>>, <<>>))
  /\ backend = [i \in 1..(ConcurrencyLimit + 2) |-> 1]
  /\ branches = << >>
  /\ lastSnap = NoSnap
  /\ faults = 0
  /\ pca = NoPca
  /\ plan = NoPlan

SpecLimiter == InitLimiter /\ [][Next]_vars

RunningStatuses == {"searching", "distilling", "recursing"}

\* branch b leaves the queue in this step
Begins(b) == branches[b].status = "queued" /\ branches'[b].status # "queued"

\* branch b stops executing in this step
Finishes(b) ==
  branches[b].status \in RunningStatuses /\ branches'[b].status \notin RunningStatuses

\* C16: in every call at most ConcurrencyLimit branches execute at once; a
\* queued branch begins only in a step in which a running branch of the same
\* call finishes, and it is the one that has waited longest (no branch with a
\* smaller index of that call is still queued).
C16_LimiterPerCall ==
  [][ /\ \A c \in DOMAIN calls' : Cardinality(Running(c)') <= ConcurrencyLimit
      /\ \A b \in DOMAIN branches : Begins(b) =>
           /\ branches'[b].status = "searching"
           /\ \E s \in BranchesOf(Front(b)) : s # b /\ Finishes(s)
           /\ \A s \in BranchesOf(Front(b)) :
                s[Len(s)] < b[Len(b)] => branches[s].status # "queued" ]_vars

\* the third branch has begun while the fourth still waits, after one of the
\* first two was caught
C16_Witness ==
  /\ Top.nQueries = ConcurrencyLimit + 2
  /\ branches[<<ConcurrencyLimit + 1>>].status \in RunningStatuses
  /\ branches[<<ConcurrencyLimit + 2>>].status = "queued"
  /\ Cardinality(Running(<<>>)) = ConcurrencyLimit
  /\ \E b \in BranchesOf(<<>>) : branches[b].status = "caught"

\* branches of call c whose completion was counted in the call's progress
Counted(c) == {b \in BranchesOf(c) : branches[b].status \in {"recursing", "done", "rejected"}}

\* C17: progress updates never race. Every update that counts a branch (the
\* branch leaves the distillation with success) raises the completedQueries of
\* its call's progress by exactly 1 over the value held just before and
\* delivers that value to the observer; so in every state, and in particular
\* when the fan-out of a call has finished, the call's completedQueries is
\* the number of its branches that completed search and distillation.
C17_ProgressUpdatesAtomic ==
  [][ /\ \A b \in DOMAIN branches :
           (branches[b].status = "distilling" /\ branches'[b].status \in {"recursing", "done"}) =>
             /\ calls'[Front(b)].progress.completedQueries =
                  calls[Front(b)].progress.completedQueries + 1
             /\ lastSnap'.completedQueries = calls'[Front(b)].progress.completedQueries
      /\ \A c \in DOMAIN calls' :
           calls'[c].progress.completedQueries = Cardinality(Counted(c)') ]_vars

\* a call whose fan-out finished with three branches, two of them counted
\* and one caught, and whose counted branches overlapped in time
C17_Witness ==
  \E c \in DOMAIN calls :
    /\ calls[c].status = "returned"
    /\ calls[c].nQueries = 3
    /\ calls[c].progress.completedQueries = 2
    /\ Cardinality(Counted(c)) = 2
    /\ \E b \in BranchesOf(c) : branches[b].status = "caught"

\* C18: a call never changes the learnings and visitedUrls of its request:
\* they are the same in every step for every call, to the end of the fan-out;
\* the request of a child call is its parent's sequences followed by what
\* the branch itself found, so nothing of a sibling branch is in it.
C18_ContextNeverMutated ==
  [][ /\ \A c \in DOMAIN calls :
           /\ calls'[c].learnings = calls[c].learnings
           /\ calls'[c].visitedUrls = calls[c].visitedUrls
      /\ \A b \in DOMAIN calls' \ DOMAIN calls :
           /\ calls'[b].learnings = calls[Front(b)].learnings \o NewLearningsOf(backend, b)
           /\ calls'[b].visitedUrls = calls[Front(b)].visitedUrls \o NewUrlsOf(backend, b)
           /\ Len(calls'[b].learnings) = Len(b)
           /\ Len(calls'[b].visitedUrls) = Len(b) ]_vars

\* the top-level call has returned after two sibling branches that found
\* different things both recursed, one of them over two levels
C18_Witness ==
  /\ Top.status = "returned"
  /\ Top.learnings = <<>>
  /\ backend[1] # backend[2]
  /\ <<1>> \in DOMAIN calls
  /\ <<2>> \in DOMAIN calls
  /\ calls[<<1>>].learnings # calls[<<2>>].learnings
  /\ \E c \in DOMAIN calls : Len(c) = 2 /\ Len(calls[c].learnings) = 2

\* C20: every learning and every source obtained by a branch whose search and
\* distillation succeeded, at any level of the tree, is in the result the
\* top-level call returns, also when the branch recursed and its child call
\* planned no sub-queries or lost all of its branches.
C20_NothingObtainedIsLost ==
  Top.status = "returned" =>
    \A b \in Executed :
      /\ NewLearningsOf(backend, b)[1] \in Range(Top.result.learnings)
      /\ NewUrlsOf(backend, b)[1] \in Range(Top.result.visitedUrls)

\* ---- termination: every pending backend call is answered in the end, and
\* the continuation of an answered call runs (the event loop is never idle
\* while a response is outstanding)

\* every request of Init; which strings the backends answer has no part in
\* whether a call settles, so the backend answers every query alike
InitLive ==
  /\ Init
  /\ \A i, j \in DOMAIN backend : backend[i] = backend[j]

SpecLive == InitLive /\ [][Next]_vars /\ WF_vars(Next)

\* the promise of the top-level call has settled
Completed == Top.status \in {"returned", "planFailed", "failed"}

\* C21: when every backend call eventually returns or fails, the top-level
\* call eventually returns or rejects, whatever the breadth and the depth: a
\* branch that keeps its slot while it awaits its child call blocks nobody
\* for ever; and along every chain of recursive calls the depth strictly
\* decreases and stays positive.
C21_ExploreTerminates ==
  /\ <>Completed
  /\ [](\A c \in DOMAIN calls : c # <<>> =>
          /\ calls[c].depth < calls[Front(c)].depth
          /\ calls[c].depth > 0)

\* the top-level call has returned after its third branch, which waited for
\* a slot, recursed and kept the slot while its child call ran two branches
C21_Witness ==
  /\ Top.status = "returned"
  /\ Top.nQueries > ConcurrencyLimit
  /\ \E b \in BranchesOf(<<>>) :
       /\ b[1] > ConcurrencyLimit
       /\ b \in DOMAIN calls
       /\ calls[b].status = "returned"
       /\ calls[b].nQueries = ConcurrencyLimit

====
